---- MODULE Spec2Model ----
(***************************************************************************)
(* python-flockq: the two orchestrators, Queue (src/flockq/queue.py) and   *)
(* TaskService (src/flockq/task_service.py), driven by concurrent workers  *)
(* over one TaskRepository.  Task, RetryPolicy, CleanupPolicy, the task    *)
(* specifications, the handler registry and the repository are imported by *)
(* the orchestrators; they are modelled from their documented contract.    *)
(***************************************************************************)
EXTENDS Integers, FiniteSets, Sequences, TLC

\* ------------------------------------------------------------------ bounds
NumWorkers == 2
MaxTasks == 2
MaxTime == 1
MaxDelay == 1

Workers == 1..NumWorkers
TaskIds == 1..MaxTasks
Delays == 0..MaxDelay

\* ------------------------------------------------------- values and inputs
NoTime == -1
NoWorker == 0
NoId == 0
NoError == <<>>
\* Optional[RetryPolicy]: the empty set is None, {p} is the policy p.
NoPolicy == {}
NoKind == "None"
\* The `task` of a worker that is in no scope.
NoTask == [state |-> "None"]

Kinds == {"email", "report"}
\* The kinds a handler is ever registered for.
HandlerKinds == {"email"}
\* Exceptions a handler can raise and `except Exception` catches.
Faults == {"ValueError", "KeyError"}
\* What a handler invocation can do: return, raise an Exception, or raise a
\* BaseException that is no Exception (SystemExit, KeyboardInterrupt).
Outcomes == {"return"} \cup Faults \cup {"SystemExit"}

\* RetryPolicy values: a max-attempts cutoff with a constant backoff.
Policies ==
    { [max_attempts |-> 1, backoff |-> 1],
      [max_attempts |-> 2, backoff |-> 1] }

\* The policies the orchestrator is constructed with.
DefaultPolicy == [max_attempts |-> 2, backoff |-> 1]

DefaultCleanupPolicy == [retention |-> 1]

OptionalPolicies == {NoPolicy} \cup {{p} : p \in Policies}

\* CleanupPolicy values: a fixed retention window.
CleanupPolicies == { [retention |-> 0], [retention |-> 1] }

VARIABLES
    variant,          \* which orchestrator was constructed
    retry_policy,     \* Queue.retry_policy (the default policy)
    cleanup_policy,   \* Queue.cleanup_policy
    registry,         \* kinds with a registered handler (TaskService)
    now,              \* the clock read by _now()
    next_id,          \* ids handed out so far (uuid4 never repeats)
    tasks,            \* the repository: id -> persisted Task
    lock,             \* the repository's per-task lock: id -> holder
    pc,               \* each worker's position inside execute_task
    tid,              \* the task id a worker is executing
    task,             \* the Task object update_task yielded to the worker
    raised,           \* the exception a worker is leaving its scope with
    started,          \* handler invocations started so far, per task id
    exit_steps,       \* 1: a scope exit is taken as one step; 2: as its two
    last              \* the last call that returned or raised

vars ==
    << variant, retry_policy, cleanup_policy, registry, now, next_id, tasks,
       lock, pc, tid, task, raised, started, exit_steps, last >>

\* ------------------------------------------------- RetryPolicy, CleanupPolicy
is_exhausted(policy, attempt_count) == attempt_count >= policy.max_attempts

next_delay(policy, attempt_count) == policy.backoff

is_expired(policy, finished_at, n) == finished_at + policy.retention <= n

\* ------------------------------------------------------------------- Task
Task_create(n, kind, delay, policy) ==
    [ state |-> "Pending",
      kind |-> kind,
      ready_at |-> n + delay,
      started_at |-> NoTime,
      finished_at |-> NoTime,
      attempt_count |-> 0,
      last_error |-> NoError,
      retry_policy |-> policy ]

\* The exception begin_execution raises, "None" when it raises nothing.
begin_execution_raises(t, n) ==
    IF t.state # "Pending" THEN "TaskNotActiveError"
    ELSE IF t.ready_at > n THEN "TaskNotReadyError"
    ELSE "None"

begin_execution(t, n) ==
    [t EXCEPT !.state = "Active", !.started_at = n, !.attempt_count = @ + 1]

end_execution(t, n, err) ==
    IF err = NoError
    THEN [t EXCEPT !.state = "Completed", !.finished_at = n]
    ELSE IF is_exhausted(t.retry_policy, t.attempt_count)
    THEN [t EXCEPT !.state = "Failed", !.finished_at = n, !.last_error = err]
    ELSE [t EXCEPT !.state = "Pending",
                   !.ready_at = n + next_delay(t.retry_policy, t.attempt_count),
                   !.last_error = err]

\* ------------------------------------------------------ TaskSpecification
\* TaskIsExecutable(now), as the Queue builds it.
TaskIsExecutable(n, t) ==
    /\ t.state = "Pending"
    /\ t.ready_at <= n

\* TaskIsExecutable(now, kinds), as the TaskService builds it.
TaskIsExecutableKinds(n, kinds, t) ==
    /\ t.state = "Pending"
    /\ t.ready_at <= n
    /\ t.kind \in kinds

TaskIsDeletable(n, policy, t) ==
    /\ t.state \in {"Completed", "Failed"}
    /\ is_expired(policy, t.finished_at, n)

\* --------------------------------------------------------- TaskRepository
Stored == DOMAIN tasks

add_task(id, t) == [i \in Stored \cup {id} |-> IF i = id THEN t ELSE tasks[i]]

\* The exception get_task and delete_task raise, "None" when the id is stored.
get_task_raises(id) == IF id \in Stored THEN "None" ELSE "TaskNotFoundError"

\* The repository after delete_task(id).
delete_task(id) == [i \in Stored \ {id} |-> tasks[i]]

\* The ids list_tasks(spec) returns; `satisfied` is the specification's
\* is_satisfied_by over the stored tasks.
list_tasks(satisfied) == {i \in Stored : satisfied[i]}

\* The exception update_task raises on entry, "None" when it acquires.
update_task_raises(id) ==
    IF lock[id] # NoWorker THEN "TaskLockedError"
    ELSE IF id \notin Stored THEN "TaskNotFoundError"
    ELSE "None"

\* ---------------------------------------------------- TaskHandlerRegistry
\* task_handler(kind) raises KeyError for a kind that is not registered.
task_handler_raises(kind) == kind \notin registry

task_kinds == registry

\* traceback.format_exc() of the exception being handled.
format_exc(e) == <<"Traceback (most recent call last)", e>>

\* A finished call: what was called on which id, the exception it raised
\* ("None" when it returned) and, for a listing, the ids it yielded.
Call(op, id, exc, ret) ==
    [op |-> op, id |-> id, raised |-> exc, ret |-> ret]

Idle(w) == pc[w] = "idle"

\* Mutant: the lock is released first, the task is not written by then.
update_task_exit_ReleaseFirst(w, t, exc) ==
    /\ IF exit_steps = 1
       THEN /\ tasks' = add_task(tid[w], t)
            /\ lock' = [lock EXCEPT ![tid[w]] = NoWorker]
            /\ pc' = [pc EXCEPT ![w] = "idle"]
            /\ tid' = [tid EXCEPT ![w] = NoId]
            /\ task' = [task EXCEPT ![w] = NoTask]
            /\ last' = Call("execute_task", tid[w], exc, {})
            /\ UNCHANGED raised
       ELSE /\ lock' = [lock EXCEPT ![tid[w]] = NoWorker]
            /\ pc' = [pc EXCEPT ![w] = "release"]
            /\ task' = [task EXCEPT ![w] = t]
            /\ raised' = [raised EXCEPT ![w] = exc]
            /\ UNCHANGED << tasks, tid, last >>
    /\ UNCHANGED started

\* update_task, leaving the scope of worker w with the task object t:
\* t is persisted, then the lock is released; execute_task returns, or the
\* exception exc raised in the scope propagates.  With exit_steps = 2 the
\* step ends when t is persisted, and update_task_release does the rest.
update_task_exit(w, t, exc) ==
    /\ tasks' = add_task(tid[w], t)
    /\ IF exit_steps = 1
       THEN /\ lock' = [lock EXCEPT ![tid[w]] = NoWorker]
            /\ pc' = [pc EXCEPT ![w] = "idle"]
            /\ tid' = [tid EXCEPT ![w] = NoId]
            /\ task' = [task EXCEPT ![w] = NoTask]
            /\ last' = Call("execute_task", tid[w], exc, {})
            /\ UNCHANGED raised
       ELSE /\ pc' = [pc EXCEPT ![w] = "release"]
            /\ task' = [task EXCEPT ![w] = t]
            /\ raised' = [raised EXCEPT ![w] = exc]
            /\ UNCHANGED << lock, tid, last >>
    /\ UNCHANGED started

\* update_task, the rest of a scope exit: the lock is released, and
\* execute_task returns to its caller or raises what left the scope.
update_task_release(w) ==
    /\ pc[w] = "release"
    /\ lock' = [lock EXCEPT ![tid[w]] = NoWorker]
    /\ pc' = [pc EXCEPT ![w] = "idle"]
    /\ tid' = [tid EXCEPT ![w] = NoId]
    /\ task' = [task EXCEPT ![w] = NoTask]
    /\ raised' = [raised EXCEPT ![w] = "None"]
    /\ last' = Call("execute_task", tid[w], raised[w], {})
    /\ UNCHANGED << variant, retry_policy, cleanup_policy, now, registry,
                    next_id, tasks, started, exit_steps >>

\* The state after construction, whatever the grain of the scope exit.
Constructed ==
    /\ variant \in {"Queue", "TaskService"}
    /\ retry_policy = DefaultPolicy
    /\ cleanup_policy = DefaultCleanupPolicy
    /\ registry = {}
    /\ now = 0
    /\ next_id = 0
    /\ tasks = << >>
    /\ lock = [i \in TaskIds |-> NoWorker]
    /\ pc = [w \in Workers |-> "idle"]
    /\ tid = [w \in Workers |-> NoId]
    /\ task = [w \in Workers |-> NoTask]
    /\ raised = [w \in Workers |-> "None"]
    /\ started = [i \in TaskIds |-> 0]
    /\ last = Call("None", NoId, "None", {})

Init ==
    /\ Constructed
    /\ exit_steps = 1

\* The clock advances on its own.
Tick ==
    /\ now < MaxTime
    /\ now' = now + 1
    /\ UNCHANGED << variant, retry_policy, cleanup_policy, registry, next_id,
                    tasks, lock, pc, tid, task, raised, started, exit_steps,
                    last >>

\* ------------------------------------------------------------------ Queue
\* What the calls leave alone.
OrchestratorUnchanged ==
    UNCHANGED << variant, retry_policy, cleanup_policy, now, exit_steps >>

WorkerUnchanged == UNCHANGED << pc, tid, task, raised, started >>

\* Mutant: the retry_policy argument is ignored.
Queue_create_task_DefaultOnly(w, delay, policy) ==
    /\ variant = "Queue"
    /\ Idle(w)
    /\ next_id < MaxTasks
    /\ LET id == next_id + 1
           t == Task_create(now, NoKind, delay, retry_policy)
       IN /\ next_id' = id
          /\ tasks' = add_task(id, t)
          /\ last' = Call("create_task", id, "None", {})
    /\ OrchestratorUnchanged
    /\ WorkerUnchanged
    /\ UNCHANGED << registry, lock >>

\* Queue.create_task(args, delay, retry_policy=None)
Queue_create_task(w, delay, policy) ==
    /\ variant = "Queue"
    /\ Idle(w)
    /\ next_id < MaxTasks
    /\ LET id == next_id + 1
           t == Task_create(now, NoKind, delay,
                            IF policy # NoPolicy
                            THEN CHOOSE p \in policy : TRUE
                            ELSE retry_policy)
       IN /\ next_id' = id
          /\ tasks' = add_task(id, t)
          /\ last' = Call("create_task", id, "None", {})
    /\ OrchestratorUnchanged
    /\ WorkerUnchanged
    /\ UNCHANGED << registry, lock >>

\* Queue.find_task(task_id)
Queue_find_task(w, id) ==
    /\ variant = "Queue"
    /\ Idle(w)
    /\ last' = Call("find_task", id, get_task_raises(id), {})
    /\ OrchestratorUnchanged
    /\ WorkerUnchanged
    /\ UNCHANGED << registry, next_id, tasks, lock >>

\* Mutant: every finished task is listed, expired or not.
Queue_find_deletable_tasks_Finished(w) ==
    /\ variant = "Queue"
    /\ Idle(w)
    /\ LET satisfied == [i \in Stored |-> tasks[i].state \in {"Completed", "Failed"}]
       IN last' = Call("find_deletable_tasks", NoId, "None", list_tasks(satisfied))
    /\ OrchestratorUnchanged
    /\ WorkerUnchanged
    /\ UNCHANGED << registry, next_id, tasks, lock >>

\* Queue.find_deletable_tasks()
Queue_find_deletable_tasks(w) ==
    /\ variant = "Queue"
    /\ Idle(w)
    /\ LET satisfied == [i \in Stored |-> TaskIsDeletable(now, cleanup_policy, tasks[i])]
       IN last' = Call("find_deletable_tasks", NoId, "None", list_tasks(satisfied))
    /\ OrchestratorUnchanged
    /\ WorkerUnchanged
    /\ UNCHANGED << registry, next_id, tasks, lock >>

\* Queue.delete_task(task_id)
Queue_delete_task(w, id) ==
    /\ variant = "Queue"
    /\ Idle(w)
    /\ tasks' = delete_task(id)
    /\ last' = Call("delete_task", id, get_task_raises(id), {})
    /\ OrchestratorUnchanged
    /\ WorkerUnchanged
    /\ UNCHANGED << registry, next_id, lock >>

\* Queue.find_executable_tasks()
Queue_find_executable_tasks(w) ==
    /\ variant = "Queue"
    /\ Idle(w)
    /\ LET satisfied == [i \in Stored |-> TaskIsExecutable(now, tasks[i])]
       IN last' = Call("find_executable_tasks", NoId, "None", list_tasks(satisfied))
    /\ OrchestratorUnchanged
    /\ WorkerUnchanged
    /\ UNCHANGED << registry, next_id, tasks, lock >>

\* Mutant: the task is fetched with get_task, so the lock is never taken.
Queue_execute_task_NoLock(w, id) ==
    /\ variant = "Queue"
    /\ Idle(w)
    /\ IF get_task_raises(id) # "None"
       THEN /\ last' = Call("execute_task", id, get_task_raises(id), {})
            /\ UNCHANGED << pc, tid, task >>
       ELSE /\ pc' = [pc EXCEPT ![w] = "begin"]
            /\ tid' = [tid EXCEPT ![w] = id]
            /\ task' = [task EXCEPT ![w] = tasks[id]]
            /\ last' = last
    /\ OrchestratorUnchanged
    /\ UNCHANGED << registry, next_id, tasks, lock, raised, started >>

\* Queue.execute_task, line 82: entering `with update_task(task_id) as task`.
Queue_execute_task(w, id) ==
    /\ variant = "Queue"
    /\ Idle(w)
    /\ IF update_task_raises(id) # "None"
       THEN /\ last' = Call("execute_task", id, update_task_raises(id), {})
            /\ UNCHANGED << lock, pc, tid, task >>
       ELSE /\ lock' = [lock EXCEPT ![id] = w]
            /\ pc' = [pc EXCEPT ![w] = "begin"]
            /\ tid' = [tid EXCEPT ![w] = id]
            /\ task' = [task EXCEPT ![w] = tasks[id]]
            /\ last' = last
    /\ OrchestratorUnchanged
    /\ UNCHANGED << registry, next_id, tasks, raised, started >>

\* Mutant: begin_execution is called inside the try block, so what it raises
\* is taken for a failure of the executor.
Queue_begin_execution_InTry(w) ==
    /\ variant = "Queue"
    /\ pc[w] = "begin"
    /\ IF begin_execution_raises(task[w], now) # "None"
       THEN update_task_exit(
                w,
                end_execution(task[w], now,
                              format_exc(begin_execution_raises(task[w], now))),
                "None")
       ELSE /\ task' = [task EXCEPT ![w] = begin_execution(task[w], now)]
            /\ pc' = [pc EXCEPT ![w] = "executor"]
            /\ started' = [started EXCEPT ![tid[w]] = @ + 1]
            /\ UNCHANGED << tasks, lock, tid, raised, last >>
    /\ OrchestratorUnchanged
    /\ UNCHANGED << registry, next_id >>

\* Mutant: the lock is taken and released by hand, and the release is
\* skipped when begin_execution raises.
Queue_begin_execution_NoRelease(w) ==
    /\ variant = "Queue"
    /\ pc[w] = "begin"
    /\ IF begin_execution_raises(task[w], now) # "None"
       THEN /\ pc' = [pc EXCEPT ![w] = "idle"]
            /\ tid' = [tid EXCEPT ![w] = NoId]
            /\ task' = [task EXCEPT ![w] = NoTask]
            /\ last' = Call("execute_task", tid[w],
                            begin_execution_raises(task[w], now), {})
            /\ UNCHANGED << tasks, lock, raised, started >>
       ELSE /\ task' = [task EXCEPT ![w] = begin_execution(task[w], now)]
            /\ pc' = [pc EXCEPT ![w] = "executor"]
            /\ started' = [started EXCEPT ![tid[w]] = @ + 1]
            /\ UNCHANGED << tasks, lock, tid, raised, last >>
    /\ OrchestratorUnchanged
    /\ UNCHANGED << registry, next_id >>

\* Queue.execute_task, line 83: task.begin_execution(now=self._now()); an
\* exception leaves the scope, otherwise the executor is called.
Queue_begin_execution(w) ==
    /\ variant = "Queue"
    /\ pc[w] = "begin"
    /\ IF begin_execution_raises(task[w], now) # "None"
       THEN update_task_exit(w, task[w], begin_execution_raises(task[w], now))
       ELSE /\ task' = [task EXCEPT ![w] = begin_execution(task[w], now)]
            /\ pc' = [pc EXCEPT ![w] = "executor"]
            /\ started' = [started EXCEPT ![tid[w]] = @ + 1]
            /\ UNCHANGED << tasks, lock, tid, raised, last >>
    /\ OrchestratorUnchanged
    /\ UNCHANGED << registry, next_id >>

\* Mutant: executor(task) is called outside any try, so whatever it raises
\* leaves the scope.
Queue_end_execution_NoTry(w, outcome) ==
    /\ variant = "Queue"
    /\ pc[w] = "executor"
    /\ IF outcome = "return"
       THEN update_task_exit(w, end_execution(task[w], now, NoError), "None")
       ELSE update_task_exit(w, task[w], outcome)
    /\ OrchestratorUnchanged
    /\ UNCHANGED << registry, next_id >>

\* Mutant: an executor that raised is invoked once more in place, without a
\* new begin_execution.
Queue_end_execution_Reinvoke(w, outcome) ==
    /\ variant = "Queue"
    /\ pc[w] = "executor"
    /\ IF outcome \in Faults /\ started[tid[w]] = task[w].attempt_count
       THEN /\ started' = [started EXCEPT ![tid[w]] = @ + 1]
            /\ UNCHANGED << tasks, lock, pc, tid, task, raised, last >>
       ELSE IF outcome \in {"return"} \cup Faults
       THEN LET err == IF outcome = "return" THEN NoError ELSE format_exc(outcome)
            IN update_task_exit(w, end_execution(task[w], now, err), "None")
       ELSE update_task_exit(w, task[w], outcome)
    /\ OrchestratorUnchanged
    /\ UNCHANGED << registry, next_id >>

\* Queue.execute_task, lines 84-90: executor(task) ends with `outcome`; an
\* Exception becomes `error`, and task.end_execution(now, error) is called.
\* Anything else raised passes `except Exception` and leaves the scope.
Queue_end_execution(w, outcome) ==
    /\ variant = "Queue"
    /\ pc[w] = "executor"
    /\ IF outcome \in {"return"} \cup Faults
       THEN LET err == IF outcome = "return" THEN NoError ELSE format_exc(outcome)
            IN update_task_exit(w, end_execution(task[w], now, err), "None")
       ELSE update_task_exit(w, task[w], outcome)
    /\ OrchestratorUnchanged
    /\ UNCHANGED << registry, next_id >>

\* ------------------------------------------------------------ TaskService
\* TaskService.register_task_handler(task_handler)
TaskService_register_task_handler(kind) ==
    /\ variant = "TaskService"
    /\ registry' = registry \cup {kind}
    /\ OrchestratorUnchanged
    /\ WorkerUnchanged
    /\ UNCHANGED << next_id, tasks, lock, last >>

\* Mutant: the id is not drawn afresh, every task is stored under the same.
TaskService_create_task_SameId(w, kind, delay, policy) ==
    /\ variant = "TaskService"
    /\ Idle(w)
    /\ next_id < MaxTasks
    /\ LET id == 1
           t == Task_create(now, kind, delay, policy)
       IN /\ next_id' = next_id + 1
          /\ tasks' = add_task(id, t)
          /\ last' = Call("create_task", id, "None", {})
    /\ OrchestratorUnchanged
    /\ WorkerUnchanged
    /\ UNCHANGED << registry, lock >>

\* TaskService.create_task(kind, args, delay, retry_policy)
TaskService_create_task(w, kind, delay, policy) ==
    /\ variant = "TaskService"
    /\ Idle(w)
    /\ next_id < MaxTasks
    /\ LET id == next_id + 1
           t == Task_create(now, kind, delay, policy)
       IN /\ next_id' = id
          /\ tasks' = add_task(id, t)
          /\ last' = Call("create_task", id, "None", {})
    /\ OrchestratorUnchanged
    /\ WorkerUnchanged
    /\ UNCHANGED << registry, lock >>

\* TaskService.task(task_id)
TaskService_task(w, id) ==
    /\ variant = "TaskService"
    /\ Idle(w)
    /\ last' = Call("task", id, get_task_raises(id), {})
    /\ OrchestratorUnchanged
    /\ WorkerUnchanged
    /\ UNCHANGED << registry, next_id, tasks, lock >>

\* TaskService.deletable_tasks(cleanup_policy)
TaskService_deletable_tasks(w, policy) ==
    /\ variant = "TaskService"
    /\ Idle(w)
    /\ LET satisfied == [i \in Stored |-> TaskIsDeletable(now, policy, tasks[i])]
       IN last' = Call("deletable_tasks", NoId, "None", list_tasks(satisfied))
    /\ OrchestratorUnchanged
    /\ WorkerUnchanged
    /\ UNCHANGED << registry, next_id, tasks, lock >>

\* Mutant: a missing task is passed over in silence.
TaskService_delete_task_Silent(w, id) ==
    /\ variant = "TaskService"
    /\ Idle(w)
    /\ tasks' = delete_task(id)
    /\ last' = Call("delete_task", id, "None", {})
    /\ OrchestratorUnchanged
    /\ WorkerUnchanged
    /\ UNCHANGED << registry, next_id, lock >>

\* TaskService.delete_task(task_id)
TaskService_delete_task(w, id) ==
    /\ variant = "TaskService"
    /\ Idle(w)
    /\ tasks' = delete_task(id)
    /\ last' = Call("delete_task", id, get_task_raises(id), {})
    /\ OrchestratorUnchanged
    /\ WorkerUnchanged
    /\ UNCHANGED << registry, next_id, lock >>

\* Mutant: the specification is built without the registered kinds.
TaskService_executable_tasks_AnyKind(w) ==
    /\ variant = "TaskService"
    /\ Idle(w)
    /\ LET satisfied == [i \in Stored |-> TaskIsExecutable(now, tasks[i])]
       IN last' = Call("executable_tasks", NoId, "None", list_tasks(satisfied))
    /\ OrchestratorUnchanged
    /\ WorkerUnchanged
    /\ UNCHANGED << registry, next_id, tasks, lock >>

\* TaskService.executable_tasks()
TaskService_executable_tasks(w) ==
    /\ variant = "TaskService"
    /\ Idle(w)
    /\ LET satisfied == [i \in Stored |-> TaskIsExecutableKinds(now, task_kinds, tasks[i])]
       IN last' = Call("executable_tasks", NoId, "None", list_tasks(satisfied))
    /\ OrchestratorUnchanged
    /\ WorkerUnchanged
    /\ UNCHANGED << registry, next_id, tasks, lock >>

\* Mutant: a held lock is taken over instead of raising TaskLockedError.
TaskService_execute_task_Steal(w, id) ==
    /\ variant = "TaskService"
    /\ Idle(w)
    /\ IF get_task_raises(id) # "None"
       THEN /\ last' = Call("execute_task", id, get_task_raises(id), {})
            /\ UNCHANGED << lock, pc, tid, task >>
       ELSE /\ lock' = [lock EXCEPT ![id] = w]
            /\ pc' = [pc EXCEPT ![w] = "begin"]
            /\ tid' = [tid EXCEPT ![w] = id]
            /\ task' = [task EXCEPT ![w] = tasks[id]]
            /\ last' = last
    /\ OrchestratorUnchanged
    /\ UNCHANGED << registry, next_id, tasks, raised, started >>

\* Mutant: the task is read with get_task and no lock is taken.
TaskService_execute_task_NoLock(w, id) ==
    /\ variant = "TaskService"
    /\ Idle(w)
    /\ IF get_task_raises(id) # "None"
       THEN /\ last' = Call("execute_task", id, get_task_raises(id), {})
            /\ UNCHANGED << pc, tid, task >>
       ELSE /\ pc' = [pc EXCEPT ![w] = "begin"]
            /\ tid' = [tid EXCEPT ![w] = id]
            /\ task' = [task EXCEPT ![w] = tasks[id]]
            /\ last' = last
    /\ OrchestratorUnchanged
    /\ UNCHANGED << registry, next_id, tasks, lock, raised, started >>

\* TaskService.execute_task, line 85: entering `with update_task(task_id)`.
TaskService_execute_task(w, id) ==
    /\ variant = "TaskService"
    /\ Idle(w)
    /\ IF update_task_raises(id) # "None"
       THEN /\ last' = Call("execute_task", id, update_task_raises(id), {})
            /\ UNCHANGED << lock, pc, tid, task >>
       ELSE /\ lock' = [lock EXCEPT ![id] = w]
            /\ pc' = [pc EXCEPT ![w] = "begin"]
            /\ tid' = [tid EXCEPT ![w] = id]
            /\ task' = [task EXCEPT ![w] = tasks[id]]
            /\ last' = last
    /\ OrchestratorUnchanged
    /\ UNCHANGED << registry, next_id, tasks, raised, started >>

\* Mutant: the call of begin_execution is left out.
TaskService_begin_execution_Skipped(w) ==
    /\ variant = "TaskService"
    /\ pc[w] = "begin"
    /\ IF task_handler_raises(task[w].kind)
       THEN update_task_exit(w, task[w], "TaskHandlerNotFound")
       ELSE /\ pc' = [pc EXCEPT ![w] = "executor"]
            /\ started' = [started EXCEPT ![tid[w]] = @ + 1]
            /\ UNCHANGED << tasks, lock, tid, task, raised, last >>
    /\ OrchestratorUnchanged
    /\ UNCHANGED << registry, next_id >>

\* Mutant: begin_execution is called before the handler is looked up.
TaskService_begin_execution_LookupLate(w) ==
    /\ variant = "TaskService"
    /\ pc[w] = "begin"
    /\ IF begin_execution_raises(task[w], now) # "None"
       THEN update_task_exit(w, task[w], begin_execution_raises(task[w], now))
       ELSE IF task_handler_raises(task[w].kind)
       THEN update_task_exit(w, begin_execution(task[w], now), "TaskHandlerNotFound")
       ELSE /\ task' = [task EXCEPT ![w] = begin_execution(task[w], now)]
            /\ pc' = [pc EXCEPT ![w] = "executor"]
            /\ started' = [started EXCEPT ![tid[w]] = @ + 1]
            /\ UNCHANGED << tasks, lock, tid, raised, last >>
    /\ OrchestratorUnchanged
    /\ UNCHANGED << registry, next_id >>

\* TaskService.execute_task, lines 86-90: the handler of task.kind is looked
\* up (KeyError becomes TaskHandlerNotFound), then task.begin_execution(now).
TaskService_begin_execution(w) ==
    /\ variant = "TaskService"
    /\ pc[w] = "begin"
    /\ IF task_handler_raises(task[w].kind)
       THEN update_task_exit(w, task[w], "TaskHandlerNotFound")
       ELSE IF begin_execution_raises(task[w], now) # "None"
       THEN update_task_exit(w, task[w], begin_execution_raises(task[w], now))
       ELSE /\ task' = [task EXCEPT ![w] = begin_execution(task[w], now)]
            /\ pc' = [pc EXCEPT ![w] = "executor"]
            /\ started' = [started EXCEPT ![tid[w]] = @ + 1]
            /\ UNCHANGED << tasks, lock, tid, raised, last >>
    /\ OrchestratorUnchanged
    /\ UNCHANGED << registry, next_id >>

\* Mutant: `error` is never assigned in the except clause.
TaskService_end_execution_ErrorDropped(w, outcome) ==
    /\ variant = "TaskService"
    /\ pc[w] = "executor"
    /\ IF outcome \in {"return"} \cup Faults
       THEN update_task_exit(w, end_execution(task[w], now, NoError), "None")
       ELSE update_task_exit(w, task[w], outcome)
    /\ OrchestratorUnchanged
    /\ UNCHANGED << registry, next_id >>

\* TaskService.execute_task, lines 91-97: task_handler.handle_task(task) ends
\* with `outcome`; an Exception becomes `error`, and
\* task.end_execution(now, error) is called.
TaskService_end_execution(w, outcome) ==
    /\ variant = "TaskService"
    /\ pc[w] = "executor"
    /\ IF outcome \in {"return"} \cup Faults
       THEN LET err == IF outcome = "return" THEN NoError ELSE format_exc(outcome)
            IN update_task_exit(w, end_execution(task[w], now, err), "None")
       ELSE update_task_exit(w, task[w], outcome)
    /\ OrchestratorUnchanged
    /\ UNCHANGED << registry, next_id >>

QueueNext ==
    \E w \in Workers :
        \/ \E d \in Delays, p \in OptionalPolicies : Queue_create_task(w, d, p)
        \/ \E id \in TaskIds : Queue_find_task(w, id)
        \/ Queue_find_deletable_tasks(w)
        \/ \E id \in TaskIds : Queue_delete_task(w, id)
        \/ Queue_find_executable_tasks(w)
        \/ \E id \in TaskIds : Queue_execute_task(w, id)
        \/ Queue_begin_execution(w)
        \/ \E o \in Outcomes : Queue_end_execution(w, o)

TaskServiceNext ==
    \/ \E k \in HandlerKinds : TaskService_register_task_handler(k)
    \/ \E w \in Workers :
        \/ \E k \in Kinds, d \in Delays, p \in Policies :
              TaskService_create_task(w, k, d, p)
        \/ \E id \in TaskIds : TaskService_task(w, id)
        \/ \E p \in CleanupPolicies : TaskService_deletable_tasks(w, p)
        \/ \E id \in TaskIds : TaskService_delete_task(w, id)
        \/ TaskService_executable_tasks(w)
        \/ \E id \in TaskIds : TaskService_execute_task(w, id)
        \/ TaskService_begin_execution(w)
        \/ \E o \in Outcomes : TaskService_end_execution(w, o)

Next ==
    \/ Tick
    \/ QueueNext
    \/ TaskServiceNext

Spec == Init /\ [][Next]_vars

\* The calls that write: the scope exit taken as its two steps, with tasks
\* created on the default retry policy, executed and deleted around it.
ExitNext ==
    \/ Tick
    \/ \E k \in HandlerKinds : TaskService_register_task_handler(k)
    \/ \E w \in Workers :
        \/ \E d \in Delays : Queue_create_task(w, d, NoPolicy)
        \/ \E k \in Kinds, d \in Delays :
              TaskService_create_task(w, k, d, DefaultPolicy)
        \/ \E id \in TaskIds : Queue_delete_task(w, id)
        \/ \E id \in TaskIds : TaskService_delete_task(w, id)
        \/ \E id \in TaskIds : Queue_execute_task(w, id)
        \/ \E id \in TaskIds : TaskService_execute_task(w, id)
        \/ Queue_begin_execution(w)
        \/ TaskService_begin_execution(w)
        \/ \E o \in Outcomes : Queue_end_execution(w, o)
        \/ \E o \in Outcomes : TaskService_end_execution(w, o)
        \/ update_task_release(w)

InitExit ==
    /\ Constructed
    /\ exit_steps = 2

SpecExit == InitExit /\ [][ExitNext]_vars

\* The clock of a run in which every wait ends: time passes on to the
\* ready_at of a Pending task that is waiting for it.
Advance ==
    /\ \E id \in Stored : tasks[id].state = "Pending" /\ tasks[id].ready_at > now
    /\ now' = now + 1
    /\ UNCHANGED << variant, retry_policy, cleanup_policy, registry, next_id,
                    tasks, lock, pc, tid, task, raised, started, exit_steps,
                    last >>

\* A worker's polling loop: it calls execute_task on a task that the
\* executable listing returns.
Queue_poll(w, id) ==
    /\ id \in Stored
    /\ TaskIsExecutable(now, tasks[id])
    /\ Queue_execute_task(w, id)

TaskService_poll(w, id) ==
    /\ id \in Stored
    /\ TaskIsExecutableKinds(now, task_kinds, tasks[id])
    /\ TaskService_execute_task(w, id)

\* Tasks are created and polled by the workers; none is deleted.
LiveNext ==
    \/ Advance
    \/ \E k \in HandlerKinds : TaskService_register_task_handler(k)
    \/ \E w \in Workers :
        \/ \E d \in Delays, p \in OptionalPolicies : Queue_create_task(w, d, p)
        \/ \E k \in Kinds, d \in Delays, p \in Policies :
              TaskService_create_task(w, k, d, p)
        \/ \E id \in TaskIds : Queue_poll(w, id)
        \/ \E id \in TaskIds : TaskService_poll(w, id)
        \/ Queue_begin_execution(w)
        \/ TaskService_begin_execution(w)
        \/ \E o \in Outcomes : Queue_end_execution(w, o)
        \/ \E o \in Outcomes : TaskService_end_execution(w, o)

\* The clock keeps advancing, handlers are registered, a call that has the
\* lock goes on and its handler terminates, and an executable task is
\* polled again and again until a poll gets its lock.
Fairness ==
    /\ WF_vars(Advance)
    /\ WF_vars(\E k \in HandlerKinds : TaskService_register_task_handler(k)
                                        /\ k \notin registry)
    /\ \A w \in Workers :
          /\ WF_vars(Queue_begin_execution(w) \/ TaskService_begin_execution(w))
          /\ WF_vars(\E o \in Outcomes :
                        Queue_end_execution(w, o) \/ TaskService_end_execution(w, o))
    /\ \A id \in TaskIds :
          SF_vars(\E w \in Workers :
                     /\ Queue_poll(w, id) \/ TaskService_poll(w, id)
                     /\ pc'[w] = "begin")

SpecLive == Init /\ [][LiveNext]_vars /\ Fairness

\* ----------------------------------------------------------------- claims
\* Worker w is inside the update_task scope of task id.
InScope(w, id) == pc[w] # "idle" /\ tid[w] = id

\* Worker w calls execute_task(id), in either orchestrator.
ExecuteCall(w, id) == Queue_execute_task(w, id) \/ TaskService_execute_task(w, id)

\* C1: at any instant at most one worker is inside the update_task scope of
\* a task id, so at most one handler invocation for it is in progress.
C1_MutualExclusion ==
    \A id \in TaskIds :
        /\ Cardinality({w \in Workers : InScope(w, id)}) <= 1
        /\ Cardinality({w \in Workers : InScope(w, id) /\ pc[w] = "executor"}) <= 1
        /\ \A w \in Workers : InScope(w, id) => lock[id] = w

\* A handler runs for a task while another worker's execute_task on the same
\* id has just been turned away.
C1_Witness ==
    \E w \in Workers :
        /\ pc[w] = "executor"
        /\ last = Call("execute_task", tid[w], "TaskLockedError", {})

\* C2: execute_task(id) while another execution holds the lock of id fails
\* in that very step with TaskLockedError; the caller does not enter the
\* scope, no handler is invoked and no task, stored or in a scope, changes.
C2_LockedFailsFast ==
    [][\A w \in Workers, id \in TaskIds :
          (ExecuteCall(w, id) /\ lock[id] # NoWorker)
              => /\ last' = Call("execute_task", id, "TaskLockedError", {})
                 /\ UNCHANGED << tasks, lock, pc, tid, task, raised, started,
                                 registry, next_id, now >>]_vars

\* A call was turned away with TaskLockedError while the holder had not yet
\* called begin_execution.
C2_Witness ==
    \E w \in Workers :
        /\ pc[w] = "begin"
        /\ last = Call("execute_task", tid[w], "TaskLockedError", {})

\* C3: a lock is held only by a worker that is still inside its scope: once
\* execute_task has returned or raised the lock is free, and update_task on
\* that id does not raise TaskLockedError.
C3_LockReleasedOnExit ==
    \A id \in TaskIds :
        (\A w \in Workers : ~InScope(w, id))
            => /\ lock[id] = NoWorker
               /\ update_task_raises(id) # "TaskLockedError"

\* execute_task raised out of the scope and the task's lock is free again.
C3_Witness ==
    /\ last.op = "execute_task"
    /\ last.raised \in {"TaskNotReadyError", "TaskNotActiveError", "TaskHandlerNotFound"}
    /\ lock[last.id] = NoWorker
    /\ \A w \in Workers : Idle(w)

\* The Task of id: the object in the hands of the lock holder while a scope
\* is open, the persisted one otherwise.
Exists(id) == id \in Stored \/ \E w \in Workers : InScope(w, id)

TaskOf(id) ==
    IF \E w \in Workers : InScope(w, id)
    THEN task[CHOOSE w \in Workers : InScope(w, id)]
    ELSE tasks[id]

Terminal == {"Completed", "Failed"}

\* The handler of worker w ends with outcome o, in either orchestrator.
EndCall(w, o) == Queue_end_execution(w, o) \/ TaskService_end_execution(w, o)

\* Worker w reaches begin_execution, in either orchestrator.
BeginCall(w) == Queue_begin_execution(w) \/ TaskService_begin_execution(w)

\* C4: the state of a task changes only Pending -> Active (by a
\* begin_execution), Active -> Completed, Active -> Pending (attempts remain)
\* and Active -> Failed (attempts exhausted), each by the end of a handler
\* invocation; the persisted state never leaves Completed or Failed.
C4_StateTransitions ==
    [][\A id \in TaskIds :
          /\ (Exists(id) /\ Exists(id)' /\ TaskOf(id)'.state # TaskOf(id).state)
                => \E w \in Workers :
                      /\ InScope(w, id)
                      /\ \/ /\ TaskOf(id).state = "Pending"
                            /\ TaskOf(id)'.state = "Active"
                            /\ pc[w] = "begin" /\ pc'[w] = "executor"
                         \/ /\ TaskOf(id).state = "Active"
                            /\ TaskOf(id)'.state = "Completed"
                            /\ pc[w] = "executor" /\ pc'[w] = "idle"
                         \/ /\ TaskOf(id).state = "Active"
                            /\ TaskOf(id)'.state = "Pending"
                            /\ pc[w] = "executor" /\ pc'[w] = "idle"
                            /\ ~is_exhausted(task[w].retry_policy, task[w].attempt_count)
                         \/ /\ TaskOf(id).state = "Active"
                            /\ TaskOf(id)'.state = "Failed"
                            /\ pc[w] = "executor" /\ pc'[w] = "idle"
                            /\ is_exhausted(task[w].retry_policy, task[w].attempt_count)
          /\ (id \in Stored /\ id \in Stored' /\ tasks[id].state \in Terminal)
                => tasks'[id].state = tasks[id].state]_vars

\* Both tasks have run: one went back to Pending after a failed attempt, the
\* other reached a terminal state.
C4_Witness ==
    \E i, j \in Stored :
        /\ tasks[i].state = "Pending" /\ tasks[i].attempt_count = 1
        /\ tasks[j].state \in Terminal

C6_HandlerNotFoundFirst ==
    [][\A w \in Workers, id \in TaskIds :
          (TaskService_begin_execution(w) /\ tid[w] = id /\ task[w].kind \notin registry)
              => /\ last' = Call("execute_task", id, "TaskHandlerNotFound", {})
                 /\ pc'[w] = "idle"
                 /\ tasks'[id] = task[w]
                 /\ (id \in Stored => tasks'[id] = tasks[id])
                 /\ lock'[id] = NoWorker
                 /\ update_task_raises(id)' = "None"]_vars

\* TaskHandlerNotFound was raised for a task that is not ready yet, where
\* begin_execution would have raised TaskNotReadyError.
C6_Witness ==
    /\ last.op = "execute_task"
    /\ last.raised = "TaskHandlerNotFound"
    /\ last.id \in Stored
    /\ tasks[last.id].ready_at > now
    /\ tasks[last.id].attempt_count = 0
    /\ lock[last.id] = NoWorker

\* execute_task of worker w raises e out of the scope: the handler is not
\* invoked and the task is persisted as it was yielded.
RaisesFromScope(w, e) ==
    /\ last' = Call("execute_task", tid[w], e, {})
    /\ pc'[w] = "idle"
    /\ tasks'[tid[w]] = task[w]

\* begin_execution went through: Active, started now, one more attempt, and
\* the handler is next.
Begun(w) ==
    /\ pc'[w] = "executor"
    /\ task'[w] = [task[w] EXCEPT !.state = "Active",
                                  !.started_at = now,
                                  !.attempt_count = task[w].attempt_count + 1]
    /\ UNCHANGED << tasks, lock, tid, raised, last >>

BeginExecutionContract(w) ==
    /\ task[w].state # "Pending" => RaisesFromScope(w, "TaskNotActiveError")
    /\ (task[w].state = "Pending" /\ task[w].ready_at > now)
          => RaisesFromScope(w, "TaskNotReadyError")
    /\ (task[w].state = "Pending" /\ task[w].ready_at <= now) => Begun(w)

\* C7 as stated: every execute_task that got the lock fails with
\* TaskNotActive when the state is not Pending, else with TaskNotReady when
\* ready_at > now, and else begins the execution.
C7_BeginExecutionAlways ==
    [][\A w \in Workers : BeginCall(w) => BeginExecutionContract(w)]_vars

\* C7, amended: the same, for the Queue and for a TaskService that has a
\* handler registered for the task's kind (without one TaskHandlerNotFound
\* is raised first, whatever the state and readiness).
C7_BeginExecution ==
    [][\A w \in Workers :
          (BeginCall(w) /\ (variant = "TaskService" => task[w].kind \in registry))
              => BeginExecutionContract(w)]_vars

\* One execute_task was refused with TaskNotActive on a Completed task while
\* a handler is running for the first attempt of another task.
C7_Witness ==
    /\ last.op = "execute_task"
    /\ last.raised = "TaskNotActiveError"
    /\ last.id \in Stored
    /\ tasks[last.id].state = "Completed"
    /\ \E w \in Workers :
          /\ pc[w] = "executor"
          /\ task[w].state = "Active"
          /\ task[w].attempt_count = 1
          /\ task[w].started_at = now

\* What end_execution leaves in the repository after a handler that returned
\* (failed = FALSE) or raised the exception o (failed = TRUE).
EndExecutionContract(w, o, failed) ==
    LET t == task[w]
        after == tasks'[tid[w]]
        exhausted == is_exhausted(t.retry_policy, t.attempt_count)
    IN /\ after.attempt_count = t.attempt_count
       /\ ~failed
             => /\ after.state = "Completed"
                /\ after.finished_at = now
       /\ (failed /\ ~exhausted)
             => /\ after.state = "Pending"
                /\ after.ready_at = now + next_delay(t.retry_policy, t.attempt_count)
                /\ after.last_error = format_exc(o)
       /\ (failed /\ exhausted)
             => /\ after.state = "Failed"
                /\ after.finished_at = now
                /\ after.last_error = format_exc(o)

\* C8: after a handler that returned the task is Completed with finished_at
\* = now; after a handler that raised it is Pending again, ready after the
\* policy's next delay, or Failed when the policy is exhausted, with the
\* diagnostic as last_error.
C8_EndExecutionAnyFault ==
    [][\A w \in Workers, o \in Outcomes :
          EndCall(w, o) => EndExecutionContract(w, o, o # "return")]_vars

\* The cases in which the code does so: a handler that returned or raised an
\* Exception.
EndExecutionOfCaughtFaults ==
    [][\A w \in Workers, o \in {"return"} \cup Faults :
          EndCall(w, o) => EndExecutionContract(w, o, o # "return")]_vars

\* A task with max_attempts = 2 failed once, was rescheduled and then
\* completed on its second attempt.
RetriedThenCompleted ==
    \E id \in Stored :
        /\ tasks[id].retry_policy.max_attempts = 2
        /\ tasks[id].state = "Completed"
        /\ tasks[id].attempt_count = 2
        /\ tasks[id].last_error # NoError
        /\ tasks[id].finished_at = 1

\* create_task added a Pending task under an id never handed out before,
\* ready after `delay`, with the policy `policy`.
Created(delay, policy) ==
    \E id \in TaskIds :
        /\ id > next_id
        /\ id \notin Stored
        /\ \A w \in Workers : tid[w] # id
        /\ Stored' = Stored \cup {id}
        /\ \A j \in Stored : tasks'[j] = tasks[j]
        /\ tasks'[id].state = "Pending"
        /\ tasks'[id].attempt_count = 0
        /\ tasks'[id].ready_at = now + delay
        /\ tasks'[id].retry_policy = policy
        /\ last' = Call("create_task", id, "None", {})

\* C9: create_task adds a new Pending task with a fresh id, attempt_count 0
\* and ready_at = now + delay; the Queue gives it the caller's policy, or its
\* own default when none is passed; the task keeps that policy for life.
C9_CreateTask ==
    [][/\ \A w \in Workers, d \in Delays, p \in OptionalPolicies :
             Queue_create_task(w, d, p)
                 => Created(d, IF p = NoPolicy
                               THEN retry_policy
                               ELSE CHOOSE q \in p : TRUE)
       /\ \A w \in Workers, k \in Kinds, d \in Delays, p \in Policies :
             TaskService_create_task(w, k, d, p)
                 => Created(d, p) /\ tasks'[next_id'].kind = k
       /\ \A id \in TaskIds :
             (Exists(id) /\ Exists(id)')
                 => TaskOf(id)'.retry_policy = TaskOf(id).retry_policy]_vars

\* A Queue holds a task created with a policy of its own, which was the one
\* that made it Failed after a single attempt, beside a task on the default.
C9_Witness ==
    /\ variant = "Queue"
    /\ \E i, j \in Stored :
          /\ tasks[i].retry_policy # retry_policy
          /\ tasks[i].state = "Failed"
          /\ tasks[i].attempt_count = 1
          /\ tasks[j].retry_policy = retry_policy
          /\ tasks[j].ready_at = 2

\* Worker w calls delete_task(id), in either orchestrator.
DeleteCall(w, id) == Queue_delete_task(w, id) \/ TaskService_delete_task(w, id)

\* C10: delete_task on a stored id succeeds, whether or not the task is
\* deletable, and get_task on that id then raises TaskNotFound; on an absent
\* id it raises TaskNotFound and changes nothing.
C10_DeleteTask ==
    [][\A w \in Workers, id \in TaskIds :
          DeleteCall(w, id)
              => IF id \in Stored
                 THEN /\ last' = Call("delete_task", id, "None", {})
                      /\ Stored' = Stored \ {id}
                      /\ get_task_raises(id)' = "TaskNotFoundError"
                      /\ \A j \in Stored' : tasks'[j] = tasks[j]
                      /\ UNCHANGED << lock, pc, tid, task, raised, started,
                                      registry, next_id, now >>
                 ELSE /\ last' = Call("delete_task", id, "TaskNotFoundError", {})
                      /\ UNCHANGED << tasks, lock, pc, tid, task, raised, started,
                                      registry, next_id, now >>]_vars

\* delete_task succeeded on a task that TaskIsDeletable selects: the copy a
\* worker was yielded before the deletion is Completed and expired.
C10_Witness ==
    /\ last.op = "delete_task"
    /\ last.raised = "None"
    /\ get_task_raises(last.id) = "TaskNotFoundError"
    /\ \E w \in Workers :
          /\ pc[w] = "begin"
          /\ tid[w] = last.id
          /\ TaskIsDeletable(now, cleanup_policy, task[w])

\* C11: the executable listing called at time now returns exactly the stored
\* tasks that are Pending with ready_at <= now; the TaskService keeps of
\* them only the tasks whose kind has a registered handler.
C11_ExecutableListing ==
    [][\A w \in Workers :
          /\ Queue_find_executable_tasks(w)
                => /\ last'.op = "find_executable_tasks"
                   /\ last'.raised = "None"
                   /\ last'.ret = {i \in Stored : /\ tasks[i].state = "Pending"
                                                  /\ tasks[i].ready_at <= now}
          /\ TaskService_executable_tasks(w)
                => /\ last'.op = "executable_tasks"
                   /\ last'.raised = "None"
                   /\ last'.ret = {i \in Stored : /\ tasks[i].state = "Pending"
                                                  /\ tasks[i].ready_at <= now
                                                  /\ tasks[i].kind \in registry}
                   /\ \A i \in last'.ret : tasks[i].kind \in registry]_vars

\* The TaskService listed one task as executable and left out another that
\* is Pending and ready but of a kind without a handler.
C11_Witness ==
    /\ last.op = "executable_tasks"
    /\ last.ret # {}
    /\ \E i \in Stored \ last.ret :
          /\ TaskIsExecutable(now, tasks[i])
          /\ tasks[i].kind \notin registry

\* C12: the deletable listing called at time now returns exactly the stored
\* tasks that are Completed or Failed and expired under the cleanup policy at
\* now; no Pending or Active task is in it.
C12_DeletableListing ==
    [][\A w \in Workers :
          /\ Queue_find_deletable_tasks(w)
                => /\ last'.op = "find_deletable_tasks"
                   /\ last'.ret = {i \in Stored :
                                      /\ tasks[i].state \in Terminal
                                      /\ is_expired(cleanup_policy, tasks[i].finished_at, now)}
                   /\ \A i \in last'.ret : tasks[i].state \notin {"Pending", "Active"}
          /\ \A p \in CleanupPolicies :
                TaskService_deletable_tasks(w, p)
                    => /\ last'.op = "deletable_tasks"
                       /\ last'.ret = {i \in Stored :
                                          /\ tasks[i].state \in Terminal
                                          /\ is_expired(p, tasks[i].finished_at, now)}
                       /\ \A i \in last'.ret : tasks[i].state \notin {"Pending", "Active"}]_vars

\* The Queue listed a finished task that has expired and left out one that
\* finished too recently.
C12_Witness ==
    /\ last.op = "find_deletable_tasks"
    /\ \E i \in last.ret, j \in Stored \ last.ret :
          /\ tasks[i].state \in Terminal
          /\ tasks[j].state \in Terminal
          /\ ~is_expired(cleanup_policy, tasks[j].finished_at, now)

\* A step of worker w inside its scope, in either orchestrator.
ScopeStep(w) == BeginCall(w) \/ \E o \in Outcomes : EndCall(w, o)

\* A call that opens no scope: create_task, find_task/task, a listing or
\* delete_task, in either orchestrator.
OtherCall(w) ==
    \/ \E d \in Delays, p \in OptionalPolicies : Queue_create_task(w, d, p)
    \/ \E k \in Kinds, d \in Delays, p \in Policies : TaskService_create_task(w, k, d, p)
    \/ \E id \in TaskIds : Queue_find_task(w, id) \/ TaskService_task(w, id)
    \/ Queue_find_deletable_tasks(w)
    \/ \E p \in CleanupPolicies : TaskService_deletable_tasks(w, p)
    \/ Queue_find_executable_tasks(w)
    \/ TaskService_executable_tasks(w)
    \/ \E id \in TaskIds : DeleteCall(w, id)

\* C13: a stored task, and the object yielded for it, changes only in a step
\* of the execution that holds its lock; create_task, find_task/task, the
\* listings and delete_task change no task that exists before and after, and
\* an execute_task changes no task of another id.
C13_MutationUnderLock ==
    [][/\ \A id \in TaskIds :
             (id \in Stored /\ id \in Stored' /\ tasks'[id] # tasks[id])
                 => \E w \in Workers :
                       lock[id] = w /\ InScope(w, id) /\ ScopeStep(w)
       /\ \A w \in Workers :
             (pc[w] # "idle" /\ pc'[w] # "idle" /\ task'[w] # task[w])
                 => lock[tid[w]] = w /\ ScopeStep(w)
       /\ \A w \in Workers :
             OtherCall(w)
                 => /\ \A id \in Stored \cap Stored' : tasks'[id] = tasks[id]
                    /\ task' = task
       /\ \A w \in Workers, id \in TaskIds :
             ((ExecuteCall(w, id) \/ (ScopeStep(w) /\ tid[w] = id)))
                 => /\ \A j \in Stored \ {id} : j \in Stored' /\ tasks'[j] = tasks[j]
                    /\ \A v \in Workers \ {w} : task'[v] = task[v]]_vars

\* An execution of one task has returned and left it Completed while the
\* handler of another task, still persisted as created, is running.
C13_Witness ==
    \E w \in Workers :
        /\ pc[w] = "executor"
        /\ tid[w] \in Stored
        /\ tasks[tid[w]].attempt_count = 0
        /\ last.op = "execute_task"
        /\ last.raised = "None"
        /\ last.id # tid[w]
        /\ last.id \in Stored
        /\ tasks[last.id].state = "Completed"

\* C14: the attempt_count of a task equals the number of handler invocations
\* started for it; it changes only by a begin_execution that went through,
\* by exactly one, and an execute_task that raises TaskNotFound, TaskLocked,
\* TaskHandlerNotFound, TaskNotActive or TaskNotReady changes no count.
C14_AttemptCount ==
    [][/\ \A id \in TaskIds :
             /\ Exists(id) => TaskOf(id).attempt_count = started[id]
             /\ Exists(id)' => TaskOf(id)'.attempt_count = started'[id]
             /\ (Exists(id) /\ Exists(id)'
                   /\ TaskOf(id)'.attempt_count # TaskOf(id).attempt_count)
                   => \E w \in Workers :
                         /\ InScope(w, id)
                         /\ BeginCall(w)
                         /\ begin_execution_raises(task[w], now) = "None"
                         /\ pc'[w] = "executor"
                         /\ TaskOf(id)'.attempt_count = TaskOf(id).attempt_count + 1
       /\ \A w \in Workers :
             (\/ \E id \in TaskIds : ExecuteCall(w, id) /\ update_task_raises(id) # "None"
              \/ BeginCall(w) /\ pc'[w] # "executor")
                 => /\ started' = started
                    /\ \A id \in TaskIds :
                          (Exists(id) /\ Exists(id)')
                              => TaskOf(id)'.attempt_count = TaskOf(id).attempt_count]_vars

\* A task is in its second attempt after a first that failed, and an
\* execute_task on it has just been refused with TaskLocked.
C14_Witness ==
    \E w \in Workers :
        /\ pc[w] = "executor"
        /\ task[w].attempt_count = 2
        /\ started[tid[w]] = 2
        /\ last = Call("execute_task", tid[w], "TaskLockedError", {})

\* The fields an execution works on.
Fields(t) ==
    << t.state, t.attempt_count, t.ready_at, t.started_at, t.finished_at,
       t.last_error >>

\* The one state machine of an execution, whichever orchestrator drives it.
\* Acquiring: the error of update_task, or the stored task is yielded.
AcquireMachine(w, id) ==
    IF lock[id] # NoWorker
    THEN last' = Call("execute_task", id, "TaskLockedError", {}) /\ pc'[w] = "idle"
    ELSE IF id \notin Stored
    THEN last' = Call("execute_task", id, "TaskNotFoundError", {}) /\ pc'[w] = "idle"
    ELSE pc'[w] = "begin" /\ task'[w] = tasks[id] /\ lock'[id] = w

\* Beginning: the error of the state machine with the task left as it was,
\* or the task begun and the handler next.
BeginMachine(w) ==
    IF task[w].state # "Pending"
    THEN /\ last' = Call("execute_task", tid[w], "TaskNotActiveError", {})
         /\ Fields(tasks'[tid[w]]) = Fields(task[w])
    ELSE IF task[w].ready_at > now
    THEN /\ last' = Call("execute_task", tid[w], "TaskNotReadyError", {})
         /\ Fields(tasks'[tid[w]]) = Fields(task[w])
    ELSE /\ pc'[w] = "executor"
         /\ Fields(task'[w]) =
               << "Active", task[w].attempt_count + 1, task[w].ready_at, now,
                  task[w].finished_at, task[w].last_error >>

\* Ending, after a handler that ended with outcome o.
EndMachine(w, o) ==
    LET t == task[w]
        after == tasks'[tid[w]]
    IN IF o = "return"
       THEN /\ last' = Call("execute_task", tid[w], "None", {})
            /\ Fields(after) =
                  << "Completed", t.attempt_count, t.ready_at, t.started_at, now,
                     t.last_error >>
       ELSE IF o \in Faults
       THEN /\ last' = Call("execute_task", tid[w], "None", {})
            /\ Fields(after) =
                  IF t.attempt_count >= t.retry_policy.max_attempts
                  THEN << "Failed", t.attempt_count, t.ready_at, t.started_at, now,
                          format_exc(o) >>
                  ELSE << "Pending", t.attempt_count, now + t.retry_policy.backoff,
                          t.started_at, t.finished_at, format_exc(o) >>
       ELSE /\ last' = Call("execute_task", tid[w], o, {})
            /\ Fields(after) = Fields(t)

\* C15: Queue.execute_task and TaskService.execute_task with a handler
\* registered for the task's kind take a task through the same state
\* machine: from the same task, clock and handler outcome both leave the same
\* state, attempt_count, ready_at, finished_at and last_error and raise the
\* same error; the TaskService differs by TaskHandlerNotFound alone.
C15_SameStateMachine ==
    [][\A w \in Workers :
          /\ \A id \in TaskIds :
                /\ Queue_execute_task(w, id) => AcquireMachine(w, id)
                /\ TaskService_execute_task(w, id) => AcquireMachine(w, id)
          /\ Queue_begin_execution(w) => BeginMachine(w)
          /\ (TaskService_begin_execution(w) /\ task[w].kind \in registry)
                => BeginMachine(w)
          /\ (TaskService_begin_execution(w) /\ task[w].kind \notin registry)
                => /\ last' = Call("execute_task", tid[w], "TaskHandlerNotFound", {})
                   /\ Fields(tasks'[tid[w]]) = Fields(task[w])
          /\ \A o \in Outcomes :
                /\ Queue_end_execution(w, o) => EndMachine(w, o)
                /\ TaskService_end_execution(w, o) => EndMachine(w, o)]_vars

\* A TaskService with a registered handler took a task through a failed
\* first attempt: it is Pending again, later, with the diagnostic.
C15_Witness ==
    /\ variant = "TaskService"
    /\ last.op = "execute_task"
    /\ last.raised = "None"
    /\ last.id \in Stored
    /\ tasks[last.id].kind \in registry
    /\ tasks[last.id].state = "Pending"
    /\ tasks[last.id].attempt_count = 1
    /\ tasks[last.id].ready_at = now + 1
    /\ tasks[last.id].last_error = format_exc("ValueError")

\* C16: a scope exit persists the task while the lock is still held and
\* releases the lock after that. When the lock is freed the repository holds
\* what the holder left, it keeps it for as long as the lock stays free, and
\* the next update_task yields it; so does a get_task in between.
C16_PersistBeforeRelease ==
    [][\A w \in Workers, id \in TaskIds :
          /\ (ScopeStep(w) /\ tid[w] = id /\ pc'[w] = "release")
                => /\ lock'[id] = w
                   /\ id \in Stored'
                   /\ tasks'[id] = task'[w]
          /\ (update_task_release(w) /\ tid[w] = id)
                => /\ lock[id] = w
                   /\ lock'[id] = NoWorker
                   /\ id \in Stored => tasks'[id] = task[w]
          /\ (lock[id] = NoWorker /\ id \in Stored /\ id \in Stored')
                => tasks'[id] = tasks[id]
          /\ (ExecuteCall(w, id) /\ pc'[w] = "begin")
                => /\ lock[id] = NoWorker
                   /\ task'[w] = tasks[id]]_vars

\* A worker has persisted a Completed task and not yet released its lock,
\* and an execute_task of the other worker on it was refused with TaskLocked.
C16_Witness ==
    \E w \in Workers :
        /\ pc[w] = "release"
        /\ lock[tid[w]] = w
        /\ tid[w] \in Stored
        /\ tasks[tid[w]] = task[w]
        /\ task[w].state = "Completed"
        /\ last = Call("execute_task", tid[w], "TaskLockedError", {})

\* C17: a task whose delete_task succeeded never comes back: an id that was
\* handed out and is not in the repository is not in it after any step,
\* whatever call takes the step.
C17_DeletedStaysDeleted ==
    [][\A id \in TaskIds :
          (id <= next_id /\ id \notin Stored) => id \notin Stored']_vars

\* C18: a task is Active only while an execution holds its lock: with the
\* lock free the persisted state is Pending, Completed or Failed.
C18_ActiveOnlyUnderLock ==
    \A id \in Stored :
        lock[id] = NoWorker => tasks[id].state \in {"Pending", "Completed", "Failed"}

\* C19: under a policy exhausted at max_attempts the attempt_count of a task
\* never exceeds max_attempts, and no more than max_attempts handler
\* invocations are ever started for it, by however many workers.
C19_AttemptsBounded ==
    \A id \in TaskIds :
        /\ id \in Stored
              => /\ tasks[id].attempt_count <= tasks[id].retry_policy.max_attempts
                 /\ started[id] <= tasks[id].retry_policy.max_attempts
        /\ \A w \in Workers :
              InScope(w, id)
                  => /\ task[w].attempt_count <= task[w].retry_policy.max_attempts
                     /\ started[id] <= task[w].retry_policy.max_attempts

\* A task has used up both attempts of its policy and is Failed; one more
\* execute_task on it was refused with TaskNotActive.
C19_Witness ==
    \E id \in Stored :
        /\ tasks[id].retry_policy.max_attempts = 2
        /\ tasks[id].state = "Failed"
        /\ tasks[id].attempt_count = 2
        /\ started[id] = 2
        /\ last = Call("execute_task", id, "TaskNotActiveError", {})

\* The task of id is stored and, in a TaskService, of a registered kind.
Runnable(id) ==
    /\ id \in Stored
    /\ variant = "TaskService" => tasks[id].kind \in registry

Finished(id) == id \in Stored /\ tasks[id].state \in Terminal

\* C20: with the clock advancing, handlers terminating, a handler registered
\* for its kind, no deletion and workers that keep polling, every created
\* task reaches Completed or Failed and stays there.
C20_EveryTaskTerminates ==
    \A id \in TaskIds : Runnable(id) ~> [](Finished(id))

\* The task was left Active with its lock free.
LeftActive(id) ==
    /\ id \in Stored
    /\ tasks[id].state = "Active"
    /\ lock[id] = NoWorker

\* What holds instead: every such task ends Completed or Failed for good,
\* or is left Active with its lock free for good.
TerminatesUnlessLeftActive ==
    \A id \in TaskIds : Runnable(id) ~> ([](Finished(id)) \/ [](LeftActive(id)))

====
